---- MODULE Spec2Model ----
(***************************************************************************)
(* log-ng: a logging facade with two variants chosen by index.js.          *)
(*   - the browser logger (blogger.js): a shared state {currentLevel,      *)
(*     transports}, per-category logger instances whose level methods      *)
(*     filter on the threshold and queue one microtask per registered      *)
(*     transport;                                                          *)
(*   - the server logger (logger.js): a wrapper around one winston         *)
(*     backend instance with a table of named transports.                  *)
(* The state of the variant that index.js did not select stays at its      *)
(* initial value.                                                          *)
(* The transports of the browser logger that do work of their own - the    *)
(* FileTransport, the APITransport - and interpolate have their own        *)
(* specifications (FileSpec, ApiSpec, InterpSpec) over their own state.    *)
(***************************************************************************)
EXTENDS Integers, Sequences, FiniteSets, TLC

(* ------------------------------ bounds -------------------------------- *)
\* level-method calls per behaviour (browser)
MaxCalls == 1
\* level-method calls per behaviour where the order of two calls is at stake
MaxOrderCalls == 2
\* length of the winston backend's transport list (server)
MaxPipes == 4
\* log() calls made on the file transport
MaxFileCalls == 2
\* initialize() calls made on the file transport
MaxInitialize == 3
\* log() calls made on the API transport
MaxApiCalls == 2

(* --------------------------- input domains ---------------------------- *)
Undefined == "undefined"
Categories == {"spec.js", "file.spec.js"}
Names == {"default", "testTransport"}
\* transport objects handed to addTransport: a ConsoleTransport, and a
\* transport whose log fails: it throws (as does calling the log of a
\* FileTransport on which initialize() has not run, which has no log
\* property yet) or returns a promise that rejects.
Transports == {"console", "custom"}
Msgs == {"hello"}
\* the params argument of a level method: omitted, an object that carries
\* keys the record also binds, or an object that carries a timestamp.
NoParams == [k \in {} |-> ""]
Params == {NoParams, [level |-> "trace", msg |-> "spoofed"], [timestamp |-> "09:15:00"]}

\* server variant: the arguments of Logger(...): nothing, a configuration
\* object (value is its logLevel) or a file name
ServerArgs == {[type |-> "undefined", value |-> Undefined],
               [type |-> "object", value |-> "debug"],
               [type |-> "object", value |-> "error"],
               [type |-> "string", value |-> "test.js"]}
ServerNames == {"test", "tee"}
\* instances of winston's Transport
WinstonTransports == {"streamA", "streamB"}
\* values handed to the server addTransport/removeTransport: transports
\* the caller made, the two of the backend's configuration, and an object
\* that is no winston Transport
ServerTransportInputs == WinstonTransports \cup {"File", "plainObject"}
\* values handed to the server setLogLevel; "bogus" is no winston level
ServerLevelInputs == {"info", "debug", "bogus"}

(* ------------------------------- levels ------------------------------- *)
levels == <<"noop", "error", "warn", "info", "debug", "trace">>

LevelNames == {levels[i] : i \in 1..Len(levels)}

\* values passed to setLogLevel: the six names and one that is none of them
LevelInputs == LevelNames \cup {"verbose"}

\* Array.prototype.indexOf: zero-based index of the first match, -1 if none
indexOf(arr, x) ==
    IF \E i \in 1..Len(arr) : arr[i] = x
    THEN (CHOOSE i \in 1..Len(arr) : arr[i] = x /\ \A j \in 1..(i - 1) : arr[j] # x) - 1
    ELSE -1

(* ------------------------------- state -------------------------------- *)
VARIABLES
    variant,        \* which logger index.js exports: "browser" or "server"
    currentLevel,   \* Logger.state.currentLevel
    transports,     \* Logger.state.transports, in property order: <<[name, transport]>>
    loggers,        \* categories for which a browser Logger instance exists
    queue,          \* the microtask queue: tasks scheduled by Logger.log
    calls,          \* history: the level-method calls made so far, each with the
                    \* registry at the call and whether the call was let through
    invoked,        \* history: the transport.log invocations made so far
    added,          \* history: per name, the transport of its latest add, "absent" after a remove
    err,            \* what the most recent operation threw to its caller, or "none"
    sInstance,      \* server: Logger.instance exists
    sLevel,         \* server: Logger.instance.level
    sPipes,         \* server: Logger.instance.transports (the backend's list)
    sTypes,         \* server: the name table types, name -> transport
    sLoggers,       \* server: child loggers created, by fileName
    lastSet,        \* history: the value the latest successful setLogLevel was given, or "unset"
    fConfig,        \* FileTransport: the config its constructor was given
    fState,         \* FileTransport: "constructed", "initialized" (log is defined) or "failed"
    fHandle,        \* FileTransport: the fileHandle the log function closes over; 0 while
                    \* the transport has no log. A handle is named by the number of the
                    \* initialize() call that obtained it.
    fInits,         \* FileTransport: the initialize() calls made, each with the handle its
                    \* picker gave (0: the picker failed) and how its promise settled
    fcalls,         \* FileTransport: the log() calls made, each with its place in the function
    writables,      \* FileTransport: the writables createWritable handed out, with the
                    \* write and close calls made on each
    diag,           \* the diagnostic channel: what console.error / console.debug were given
    aConfig,        \* APITransport: the config its constructor was given
    acalls,         \* APITransport: the log() calls made
    requests,       \* APITransport: the fetch calls made
    interp          \* interpolate: the call at hand, [template, model, result]

bvars == <<currentLevel, transports, loggers, queue, calls, invoked, added>>
svars == <<sInstance, sLevel, sPipes, sTypes, sLoggers>>
lvars == <<variant, currentLevel, transports, loggers, queue, calls, invoked, added, err,
           sInstance, sLevel, sPipes, sTypes, sLoggers, lastSet>>
fvars == <<fConfig, fState, fHandle, fInits, fcalls, writables>>
avars == <<aConfig, acalls, requests>>
tvars == <<fvars, diag, avars, interp>>
vars == <<lvars, tvars>>

(* ----------------------- the transport registry ----------------------- *)
\* names registered in an object kept as a sequence of [name, transport]
Keys(obj) == {obj[i].name : i \in 1..Len(obj)}

\* obj[name]
Get(obj, name) == (CHOOSE i \in 1..Len(obj) : obj[i].name = name)

\* Object.values(obj): the values in property (insertion) order
ObjectValues(obj) == [i \in 1..Len(obj) |-> obj[i].transport]

\* SetProperty that always adds a new entry, also under a name already there
SetProperty_push(obj, name, value) ==
    Append(obj, [name |-> name, transport |-> value])

\* obj[name] = value: an existing key keeps its place, a new key goes last
SetProperty(obj, name, value) ==
    IF name \in Keys(obj)
    THEN [i \in 1..Len(obj) |-> IF obj[i].name = name
                                 THEN [name |-> name, transport |-> value]
                                 ELSE obj[i]]
    ELSE Append(obj, [name |-> name, transport |-> value])

\* delete obj[name]: nothing happens when the key is absent
DeleteProperty(obj, name) ==
    SelectSeq(obj, LAMBDA e : e.name # name)

(* ------------------------------ records ------------------------------- *)
\* {level, msg, category: filename, ...params}: the keys of params come
\* last, so a key that params carries replaces the bound one
BuildRecord(level, msg, filename, params) ==
    LET base == [level |-> level, msg |-> msg, category |-> filename]
    IN  [k \in DOMAIN base \cup DOMAIN params |->
            IF k \in DOMAIN params THEN params[k] ELSE base[k]]

\* what transport.log(record) does inside its microtask: the console
\* transport returns; the failing one throws or returns a rejected promise
LogOutcomes(t) ==
    CASE t = "console" -> {"returned"}
      [] t = "custom"  -> {"threw", "rejected"}

(* -------------------------- browser operations ------------------------ *)
\* NewLogger without the test of filename: an instance is made for undefined
NewLogger_lenient(filename) ==
    /\ variant = "browser"
    /\ err' = "none"
    /\ loggers' = loggers \cup {filename}
    /\ UNCHANGED <<variant, currentLevel, transports, queue, calls, invoked, added, lastSet>>
    /\ UNCHANGED svars
    /\ UNCHANGED tvars

\* new Logger(filename)
NewLogger(filename) ==
    /\ variant = "browser"
    /\ IF filename = Undefined
       THEN /\ err' = "MissingCategory"
            /\ UNCHANGED loggers
       ELSE /\ err' = "none"
            /\ loggers' = loggers \cup {filename}
    /\ UNCHANGED <<variant, currentLevel, transports, queue, calls, invoked, added, lastSet>>
    /\ UNCHANGED svars
    /\ UNCHANGED tvars

\* history: whether a call of the level method is let through by the
\* threshold in force when it is made (the noop method lets nothing through)
PassesAtCall(level) ==
    level # "noop" /\ indexOf(levels, level) <= indexOf(levels, currentLevel)

\* Scheduled with the comparison turned round: a level is let through when
\* it is at or past the threshold in the list
Scheduled_reversed(c, level, msg, filename, params) ==
    IF indexOf(levels, level) >= indexOf(levels, currentLevel)
    THEN [i \in 1..Len(transports) |->
             [call |-> c, slot |-> i, transport |-> ObjectValues(transports)[i],
              level |-> level, msg |-> msg, filename |-> filename, params |-> params]]
    ELSE <<>>

\* Scheduled with the comparison made strict: a level equal to the
\* threshold is filtered out
Scheduled_strict(c, level, msg, filename, params) ==
    IF indexOf(levels, level) < indexOf(levels, currentLevel)
    THEN [i \in 1..Len(transports) |->
             [call |-> c, slot |-> i, transport |-> ObjectValues(transports)[i],
              level |-> level, msg |-> msg, filename |-> filename, params |-> params]]
    ELSE <<>>

\* the microtasks Logger.log queues: one closure per value of the registry,
\* in order; each closes over transport, level, msg, filename and params
Scheduled(c, level, msg, filename, params) ==
    IF indexOf(levels, level) <= indexOf(levels, currentLevel)
    THEN [i \in 1..Len(transports) |->
             [call |-> c, slot |-> i, transport |-> ObjectValues(transports)[i],
              level |-> level, msg |-> msg, filename |-> filename, params |-> params]]
    ELSE <<>>

\* log that calls transport.log itself, one transport after the other,
\* instead of queueing microtasks: the first transport that throws ends the
\* loop and the exception reaches the caller
log_sync(filename, level, msg, params) ==
    LET tasks == Scheduled(Len(calls) + 1, level, msg, filename, params)
        Fails(i) == "returned" \notin LogOutcomes(tasks[i].transport)
        last == IF \E i \in 1..Len(tasks) : Fails(i)
                THEN CHOOSE i \in 1..Len(tasks) : Fails(i) /\ \A j \in 1..(i - 1) : ~Fails(j)
                ELSE Len(tasks)
    IN  /\ invoked' = invoked \o
              [i \in 1..last |->
                  [call |-> tasks[i].call, slot |-> tasks[i].slot,
                   transport |-> tasks[i].transport,
                   record |-> BuildRecord(level, msg, filename, params),
                   outcome |-> IF Fails(i) THEN "threw" ELSE "returned"]]
        /\ err' = IF \E i \in 1..Len(tasks) : Fails(i) THEN "TypeError" ELSE "none"
        /\ UNCHANGED queue

\* instance.log(level, msg, params): it queues the microtasks, runs none of
\* them and returns to its caller
log(filename, level, msg, params) ==
    /\ queue' = queue \o Scheduled(Len(calls) + 1, level, msg, filename, params)
    /\ err' = "none"
    /\ UNCHANGED invoked

\* LevelMethod with every level, noop included, bound to log
LevelMethod_bindAll(filename, level, msg, params) ==
    /\ variant = "browser"
    /\ filename \in loggers
    /\ log(filename, level, msg, params)
    /\ calls' = Append(calls, [method |-> level, category |-> filename, msg |-> msg,
                               registry |-> ObjectValues(transports),
                               passed |-> PassesAtCall(level)])
    /\ UNCHANGED <<variant, currentLevel, transports, loggers, added, lastSet>>
    /\ UNCHANGED svars
    /\ UNCHANGED tvars

\* instance[level](msg, params): noop is an empty function, the others are
\* log bound to their level
LevelMethod(filename, level, msg, params) ==
    /\ variant = "browser"
    /\ filename \in loggers
    /\ IF level = "noop"
       THEN /\ err' = "none"
            /\ UNCHANGED <<queue, invoked>>
       ELSE log(filename, level, msg, params)
    /\ calls' = Append(calls, [method |-> level, category |-> filename, msg |-> msg,
                               registry |-> ObjectValues(transports),
                               passed |-> PassesAtCall(level)])
    /\ UNCHANGED <<variant, currentLevel, transports, loggers, added, lastSet>>
    /\ UNCHANGED svars
    /\ UNCHANGED tvars

\* Logger.level: the getter of the threshold
LoggerLevel == currentLevel

\* Logger.addTransport(name, newTransport)
addTransport(name, newTransport) ==
    /\ variant = "browser"
    /\ transports' = SetProperty(transports, name, newTransport)
    /\ added' = [added EXCEPT ![name] = newTransport]
    /\ err' = "none"
    /\ UNCHANGED <<variant, currentLevel, loggers, queue, calls, invoked, lastSet>>
    /\ UNCHANGED svars
    /\ UNCHANGED tvars

\* Logger.removeTransport(transportToRemove)
removeTransport(transportToRemove) ==
    /\ variant = "browser"
    /\ transports' = DeleteProperty(transports, transportToRemove)
    /\ added' = [added EXCEPT ![transportToRemove] = "absent"]
    /\ err' = "none"
    /\ UNCHANGED <<variant, currentLevel, loggers, queue, calls, invoked, lastSet>>
    /\ UNCHANGED svars
    /\ UNCHANGED tvars

\* setLogLevel without the membership test: any value becomes the threshold
setLogLevel_unchecked(newLevel) ==
    /\ variant = "browser"
    /\ currentLevel' = newLevel
    /\ lastSet' = newLevel
    /\ err' = "none"
    /\ UNCHANGED <<variant, transports, loggers, queue, calls, invoked, added>>
    /\ UNCHANGED svars
    /\ UNCHANGED tvars

\* Logger.setLogLevel(newLevel)
setLogLevel(newLevel) ==
    /\ variant = "browser"
    /\ IF \E i \in 1..Len(levels) : levels[i] = newLevel
       THEN /\ currentLevel' = newLevel
            /\ lastSet' = newLevel
            /\ err' = "none"
       ELSE /\ err' = "InvalidLevel"
            /\ UNCHANGED <<currentLevel, lastSet>>
    /\ UNCHANGED <<variant, transports, loggers, queue, calls, invoked, added>>
    /\ UNCHANGED svars
    /\ UNCHANGED tvars

\* RunMicrotask that tests the level against the threshold again when the
\* microtask runs, and drops the record when the threshold excludes it by then
RunMicrotask_recheck ==
    /\ variant = "browser"
    /\ queue # <<>>
    /\ IF indexOf(levels, Head(queue).level) <= indexOf(levels, currentLevel)
       THEN \E outcome \in LogOutcomes(Head(queue).transport) :
               invoked' = Append(invoked, [call |-> Head(queue).call, slot |-> Head(queue).slot,
                                           transport |-> Head(queue).transport,
                                           record |-> BuildRecord(Head(queue).level,
                                                                  Head(queue).msg,
                                                                  Head(queue).filename,
                                                                  Head(queue).params),
                                           outcome |-> outcome])
       ELSE UNCHANGED invoked
    /\ queue' = Tail(queue)
    /\ UNCHANGED <<variant, currentLevel, transports, loggers, calls, added, err, lastSet>>
    /\ UNCHANGED svars
    /\ UNCHANGED tvars

\* RunMicrotask in which a log that throws ends the processing of the
\* queue: the microtasks behind it never run
RunMicrotask_abort ==
    /\ variant = "browser"
    /\ queue # <<>>
    /\ \E outcome \in LogOutcomes(Head(queue).transport) :
          /\ invoked' = Append(invoked, [call |-> Head(queue).call, slot |-> Head(queue).slot,
                                         transport |-> Head(queue).transport,
                                         record |-> BuildRecord(Head(queue).level, Head(queue).msg,
                                                                Head(queue).filename,
                                                                Head(queue).params),
                                         outcome |-> outcome])
          /\ queue' = IF outcome = "threw" THEN <<>> ELSE Tail(queue)
    /\ UNCHANGED <<variant, currentLevel, transports, loggers, calls, added, err, lastSet>>
    /\ UNCHANGED svars
    /\ UNCHANGED tvars

\* RunMicrotask in which the microtask holds the place of its transport in
\* the registry and reads the registry when it runs: the record goes to
\* whatever transport is at that place by then, to none if the place is gone
RunMicrotask_lookup ==
    /\ variant = "browser"
    /\ queue # <<>>
    /\ IF Head(queue).slot <= Len(transports)
       THEN \E outcome \in LogOutcomes(ObjectValues(transports)[Head(queue).slot]) :
               invoked' = Append(invoked, [call |-> Head(queue).call, slot |-> Head(queue).slot,
                                           transport |-> ObjectValues(transports)[Head(queue).slot],
                                           record |-> BuildRecord(Head(queue).level,
                                                                  Head(queue).msg,
                                                                  Head(queue).filename,
                                                                  Head(queue).params),
                                           outcome |-> outcome])
       ELSE UNCHANGED invoked
    /\ queue' = Tail(queue)
    /\ UNCHANGED <<variant, currentLevel, transports, loggers, calls, added, err, lastSet>>
    /\ UNCHANGED svars
    /\ UNCHANGED tvars

\* RunMicrotask over a queue served last in, first out: the microtask that
\* runs is the one queued most recently
RunMicrotask_lifo ==
    /\ variant = "browser"
    /\ queue # <<>>
    /\ LET task == queue[Len(queue)]
       IN  \E outcome \in LogOutcomes(task.transport) :
              invoked' = Append(invoked, [call |-> task.call, slot |-> task.slot,
                                          transport |-> task.transport,
                                          record |-> BuildRecord(task.level, task.msg,
                                                                 task.filename, task.params),
                                          outcome |-> outcome])
    /\ queue' = SubSeq(queue, 1, Len(queue) - 1)
    /\ UNCHANGED <<variant, currentLevel, transports, loggers, calls, added, err, lastSet>>
    /\ UNCHANGED svars
    /\ UNCHANGED tvars

\* one microtask: () => transport.log({level, msg, category: filename,
\* ...params}). The record is built from what the closure holds. Whatever
\* log does (an exception is reported by the host, a rejected promise is
\* dropped), the microtask ends and the next one can run; nothing reaches
\* the caller of the level method, which returned earlier.
RunMicrotask ==
    /\ variant = "browser"
    /\ queue # <<>>
    /\ \E outcome \in LogOutcomes(Head(queue).transport) :
          invoked' = Append(invoked, [call |-> Head(queue).call, slot |-> Head(queue).slot,
                                      transport |-> Head(queue).transport,
                                      record |-> BuildRecord(Head(queue).level, Head(queue).msg,
                                                             Head(queue).filename,
                                                             Head(queue).params),
                                      outcome |-> outcome])
    /\ queue' = Tail(queue)
    /\ UNCHANGED <<variant, currentLevel, transports, loggers, calls, added, err, lastSet>>
    /\ UNCHANGED svars
    /\ UNCHANGED tvars

(* --------------------------- server operations ------------------------ *)
\* winston's Logger.add(transport): the transport is piped, i.e. pushed at
\* the end of the backend's list, whether or not it is in the list already
winstonAdd(pipes, transport) == Append(pipes, transport)

\* winston's Logger.remove(transport): unpipe drops the first occurrence of
\* the transport and does nothing when there is none
winstonRemove(pipes, transport) ==
    IF \E i \in 1..Len(pipes) : pipes[i] = transport
    THEN LET k == CHOOSE i \in 1..Len(pipes) :
                      pipes[i] = transport /\ \A j \in 1..(i - 1) : pipes[j] # transport
         IN  [i \in 1..(Len(pipes) - 1) |-> IF i < k THEN pipes[i] ELSE pipes[i + 1]]
    ELSE pipes

\* ServerLogger without the test that Logger.instance is undefined: every
\* call with a configuration object makes a backend from that configuration
ServerLogger_reconfigure(arg) ==
    /\ variant = "server"
    /\ IF arg.type = "undefined"
       THEN /\ err' = "MissingCategory"
            /\ UNCHANGED svars
       ELSE IF arg.type = "object"
       THEN /\ sInstance' = TRUE
            /\ sLevel' = arg.value
            /\ sPipes' = <<"File", "Console">>
            /\ sTypes' = <<>>
            /\ sLoggers' = sLoggers \cup {arg}
            /\ err' = "none"
       ELSE IF ~sInstance
       THEN /\ err' = "TypeError"
            /\ UNCHANGED svars
       ELSE /\ sLoggers' = sLoggers \cup {arg}
            /\ err' = "none"
            /\ UNCHANGED <<sInstance, sLevel, sPipes, sTypes>>
    /\ UNCHANGED <<variant, lastSet>>
    /\ UNCHANGED bvars
    /\ UNCHANGED tvars

\* Logger(fileName, customMetadata) of the server variant. arg.type is the
\* typeof of fileName; for an object arg.value is its logLevel.
ServerLogger(arg) ==
    /\ variant = "server"
    /\ IF arg.type = "undefined"
       THEN /\ err' = "MissingCategory"
            /\ UNCHANGED svars
       ELSE IF ~sInstance /\ arg.type = "object"
       THEN \* first configuration call: backend and static operations, then a child
            /\ sInstance' = TRUE
            /\ sLevel' = arg.value
            /\ sPipes' = <<"File", "Console">>
            /\ sTypes' = <<>>
            /\ sLoggers' = sLoggers \cup {arg}
            /\ err' = "none"
       ELSE IF ~sInstance
       THEN \* Logger.instance is undefined: Logger.instance.child throws
            /\ err' = "TypeError"
            /\ UNCHANGED svars
       ELSE /\ sLoggers' = sLoggers \cup {arg}
            /\ err' = "none"
            /\ UNCHANGED <<sInstance, sLevel, sPipes, sTypes>>
    /\ UNCHANGED <<variant, lastSet>>
    /\ UNCHANGED bvars
    /\ UNCHANGED tvars

\* Logger.addTransport(name, newTransport) of the server variant
ServerAddTransport(name, newTransport) ==
    /\ variant = "server"
    /\ IF ~sInstance
       THEN \* the static operations are not defined yet
            /\ err' = "TypeError"
            /\ UNCHANGED svars
       ELSE LET types == IF newTransport \in WinstonTransports /\ name \notin Keys(sTypes)
                         THEN SetProperty(sTypes, name, newTransport)
                         ELSE sTypes
            IN  IF name \notin Keys(types)
                THEN \* types[name] is undefined: types[name]() throws
                     /\ err' = "TypeError"
                     /\ UNCHANGED svars
                ELSE /\ Len(sPipes) < MaxPipes
                     /\ sTypes' = types
                     /\ sPipes' = winstonAdd(sPipes, types[Get(types, name)].transport)
                     /\ err' = "none"
                     /\ UNCHANGED <<sInstance, sLevel, sLoggers>>
    /\ UNCHANGED <<variant, lastSet>>
    /\ UNCHANGED bvars
    /\ UNCHANGED tvars

\* Logger.removeTransport(transportToRemove) of the server variant, called
\* with a name (a string)
ServerRemoveTransportByName(name) ==
    /\ variant = "server"
    /\ IF ~sInstance
       THEN /\ err' = "TypeError"
            /\ UNCHANGED svars
       ELSE IF name \notin Keys(sTypes)
       THEN \* types[name] is undefined: types[name]() throws before anything changes
            /\ err' = "TypeError"
            /\ UNCHANGED svars
       ELSE /\ sPipes' = winstonRemove(sPipes, sTypes[Get(sTypes, name)].transport)
            /\ sTypes' = DeleteProperty(sTypes, name)
            /\ err' = "none"
            /\ UNCHANGED <<sInstance, sLevel, sLoggers>>
    /\ UNCHANGED <<variant, lastSet>>
    /\ UNCHANGED bvars
    /\ UNCHANGED tvars

\* Logger.removeTransport(transportToRemove) of the server variant, called
\* with a transport object: the name table is left alone
ServerRemoveTransportByRef(transport) ==
    /\ variant = "server"
    /\ IF ~sInstance
       THEN /\ err' = "TypeError"
            /\ UNCHANGED svars
       ELSE /\ sPipes' = winstonRemove(sPipes, transport)
            /\ err' = "none"
            /\ UNCHANGED <<sInstance, sLevel, sTypes, sLoggers>>
    /\ UNCHANGED <<variant, lastSet>>
    /\ UNCHANGED bvars
    /\ UNCHANGED tvars

\* Logger.getLogLevel() and logger.getLogLevel() of any child: both read
\* Logger.instance.level
getLogLevel == sLevel

\* ServerSetLogLevel in which a child assigns its own level property and
\* leaves Logger.instance.level alone
ServerSetLogLevel_own(receiver, newLevel) ==
    /\ variant = "server"
    /\ IF receiver = "Logger" /\ ~sInstance
       THEN /\ err' = "TypeError"
            /\ UNCHANGED <<svars, lastSet>>
       ELSE /\ receiver = "Logger" \/ sLoggers # {}
            /\ sLevel' = IF receiver = "Logger" THEN newLevel ELSE sLevel
            /\ lastSet' = newLevel
            /\ err' = "none"
            /\ UNCHANGED <<sInstance, sPipes, sTypes, sLoggers>>
    /\ UNCHANGED variant
    /\ UNCHANGED bvars
    /\ UNCHANGED tvars

\* Logger.setLogLevel(newLevel) and logger.setLogLevel(newLevel) of a child:
\* both assign Logger.instance.level, whatever the value
ServerSetLogLevel(receiver, newLevel) ==
    /\ variant = "server"
    /\ IF receiver = "Logger" /\ ~sInstance
       THEN /\ err' = "TypeError"
            /\ UNCHANGED <<svars, lastSet>>
       ELSE /\ receiver = "Logger" \/ sLoggers # {}
            /\ sLevel' = newLevel
            /\ lastSet' = newLevel
            /\ err' = "none"
            /\ UNCHANGED <<sInstance, sPipes, sTypes, sLoggers>>
    /\ UNCHANGED variant
    /\ UNCHANGED bvars
    /\ UNCHANGED tvars

(* ------------------------------ behaviour ----------------------------- *)
\* the loggers at start: Logger.state of the browser variant with the
\* default transport registered; the server variant not yet configured
LoggerInit ==
    /\ currentLevel = "noop"
    /\ transports = <<[name |-> "default", transport |-> "console"]>>
    /\ loggers = {}
    /\ queue = <<>>
    /\ calls = <<>>
    /\ invoked = <<>>
    /\ added = [n \in Names |-> IF n = "default" THEN "console" ELSE "absent"]
    /\ err = "none"
    /\ sInstance = FALSE
    /\ sLevel = Undefined
    /\ sPipes = <<>>
    /\ sTypes = <<>>
    /\ sLoggers = {}
    /\ lastSet = "unset"

\* no file transport in use
FileIdle ==
    /\ fConfig = NoParams
    /\ fState = "constructed"
    /\ fHandle = 0
    /\ fInits = <<>>
    /\ fcalls = <<>>
    /\ writables = <<>>

\* no API transport in use
ApiIdle ==
    /\ aConfig = Undefined
    /\ acalls = <<>>
    /\ requests = <<>>

Init ==
    /\ variant \in {"browser", "server"}
    /\ LoggerInit
    /\ FileIdle
    /\ diag = {}
    /\ ApiIdle
    /\ interp = Undefined

Next ==
    \/ \E f \in Categories \cup {Undefined} : NewLogger(f)
    \/ \E f \in Categories, l \in LevelNames, m \in Msgs, p \in Params :
          Len(calls) < MaxCalls /\ LevelMethod(f, l, m, p)
    \/ \E n \in Names, t \in Transports : addTransport(n, t)
    \/ \E n \in Names : removeTransport(n)
    \/ \E l \in LevelInputs : setLogLevel(l)
    \/ RunMicrotask
    \/ \E a \in ServerArgs : ServerLogger(a)
    \/ \E n \in ServerNames : ServerRemoveTransportByName(n)
    \/ \E n \in ServerNames, t \in ServerTransportInputs : ServerAddTransport(n, t)
    \/ \E t \in ServerTransportInputs : ServerRemoveTransportByRef(t)
    \/ \E r \in {"Logger", "child"}, l \in ServerLevelInputs : ServerSetLogLevel(r, l)

Spec == Init /\ [][Next]_vars

(* ------------------- two level-method calls in a row ------------------- *)
\* The browser logger with up to MaxOrderCalls level-method calls, the
\* registry and the threshold changing in between; one category, no params.
OrderLevels == {"error", "debug"}
OrderThresholds == {"warn", "trace"}

OrderInit ==
    /\ variant = "browser"
    /\ LoggerInit
    /\ FileIdle
    /\ diag = {}
    /\ ApiIdle
    /\ interp = Undefined

OrderNext ==
    \/ NewLogger("file.spec.js")
    \/ \E l \in OrderLevels :
          Len(calls) < MaxOrderCalls /\ LevelMethod("file.spec.js", l, "hello", NoParams)
    \/ \E n \in Names, t \in Transports : addTransport(n, t)
    \/ \E n \in Names : removeTransport(n)
    \/ \E l \in OrderThresholds : setLogLevel(l)
    \/ RunMicrotask

OrderSpec == OrderInit /\ [][OrderNext]_vars

(* --------------------------- FileTransport ---------------------------- *)
\* configs given to FileTransport(config): none of its own, or a default category
FileConfigs == {NoParams, [category |-> "app"]}

\* records handed to log(params): one with a timestamp, one without
FileRecords ==
    {[level |-> "info", msg |-> "hello", category |-> "file.spec.js", timestamp |-> "12:00"],
     [level |-> "error", msg |-> "oops"]}

\* the text of new Date().toLocaleTimeString('en-US', merged.dateFmt)
Now == "<time>"

\* Object.assign({}, config, params): the keys of both, params winning
ObjectAssign(config, params) ==
    [k \in DOMAIN config \cup DOMAIN params |->
        IF k \in DOMAIN params THEN params[k] ELSE config[k]]

\* ${merged[k]} in a template literal: a missing key reads undefined
TemplateField(merged, k) == IF k \in DOMAIN merged THEN merged[k] ELSE "undefined"

\* `${merged.timestamp || new Date()...} [${merged.category}] ${merged.level}: ${merged.msg}\n`
\* as the sequence of its pieces
FormatLine(merged) ==
    <<IF "timestamp" \in DOMAIN merged /\ merged["timestamp"] # ""
      THEN merged["timestamp"] ELSE Now,
      " [", TemplateField(merged, "category"), "] ", TemplateField(merged, "level"),
      ": ", TemplateField(merged, "msg"), "\n">>

\* FileInitialize in which log is defined as a configurable property: a
\* later initialize() whose picker gives a handle defines log again, over
\* the new handle
FileInitialize_redefine(ok) ==
    /\ Len(fInits) < MaxInitialize
    /\ IF ok
       THEN /\ fHandle' = Len(fInits) + 1
            /\ fState' = "initialized"
            /\ UNCHANGED diag
       ELSE /\ diag' = diag \cup {[channel |-> "error", from |-> "showSaveFilePicker", call |-> 0]}
            /\ fState' = IF fHandle = 0 THEN "failed" ELSE fState
            /\ UNCHANGED fHandle
    /\ fInits' = Append(fInits, [handle |-> IF ok THEN Len(fInits) + 1 ELSE 0,
                                 promise |-> "resolved"])
    /\ UNCHANGED <<fConfig, fcalls, writables, avars, interp>>
    /\ UNCHANGED lvars

\* fileTransport.initialize(), from the call to the end of the function. The
\* picker rejects: catch reports it and the transport is left as it was.
\* The picker resolves with a file handle: Object.defineProperty defines log
\* over that handle when the transport has no log yet; when it has one, log
\* is a non-configurable, non-writable property and defineProperty throws a
\* TypeError, which the same catch reports, so log stays as it was. Either
\* way the promise of initialize resolves.
FileInitialize(ok) ==
    /\ Len(fInits) < MaxInitialize
    /\ IF ok /\ fHandle = 0
       THEN /\ fHandle' = Len(fInits) + 1
            /\ fState' = "initialized"
            /\ UNCHANGED diag
       ELSE IF ok
       THEN /\ diag' = diag \cup {[channel |-> "error", from |-> "defineProperty", call |-> 0]}
            /\ UNCHANGED <<fHandle, fState>>
       ELSE /\ diag' = diag \cup {[channel |-> "error", from |-> "showSaveFilePicker", call |-> 0]}
            /\ fState' = IF fHandle = 0 THEN "failed" ELSE fState
            /\ UNCHANGED fHandle
    /\ fInits' = Append(fInits, [handle |-> IF ok THEN Len(fInits) + 1 ELSE 0,
                                 promise |-> "resolved"])
    /\ UNCHANGED <<fConfig, fcalls, writables, avars, interp>>
    /\ UNCHANGED lvars

\* fileTransport.log(params) up to its first await: merged is made and
\* fileHandle.createWritable({keepExistingData: true}) is called on the
\* handle the function closes over. after is the number of initialize()
\* calls made before this call.
FileLog(params) ==
    /\ fState = "initialized"
    /\ Len(fcalls) < MaxFileCalls
    /\ fcalls' = Append(fcalls, [pc |-> "createWritable",
                                 merged |-> ObjectAssign(fConfig, params),
                                 handle |-> fHandle,
                                 after |-> Len(fInits),
                                 writable |-> 0,
                                 promise |-> "pending"])
    /\ UNCHANGED <<fConfig, fState, fHandle, fInits, writables, diag, avars, interp>>
    /\ UNCHANGED lvars

\* the promise of createWritable settles. Fulfilled: writable is assigned and
\* writable.write(line) is called. Rejected: catch reports the error, then
\* finally evaluates writable.close() with writable still undefined, which
\* throws a TypeError out of the finally block: the promise of log rejects.
FileCreateWritableSettles(c, ok) ==
    /\ c \in 1..Len(fcalls)
    /\ fcalls[c].pc = "createWritable"
    /\ IF ok
       THEN /\ writables' = Append(writables, [owner |-> c,
                                               handle |-> fcalls[c].handle,
                                               writes |-> <<FormatLine(fcalls[c].merged)>>,
                                               closes |-> 0])
            /\ fcalls' = [fcalls EXCEPT ![c].pc = "write", ![c].writable = Len(writables) + 1]
            /\ UNCHANGED diag
       ELSE /\ diag' = diag \cup {[channel |-> "error", from |-> "createWritable", call |-> c]}
            /\ fcalls' = [fcalls EXCEPT ![c].pc = "done", ![c].promise = "rejected"]
            /\ UNCHANGED writables
    /\ UNCHANGED <<fConfig, fState, fHandle, fInits, avars, interp>>
    /\ UNCHANGED lvars

\* FileWriteSettles in which close is the last statement of the try block
\* instead of a finally block: a write that rejects goes to catch and the
\* writable is never closed
FileWriteSettles_noFinally(c, ok) ==
    /\ c \in 1..Len(fcalls)
    /\ fcalls[c].pc = "write"
    /\ IF ok
       THEN /\ writables' = [writables EXCEPT ![fcalls[c].writable].closes = @ + 1]
            /\ fcalls' = [fcalls EXCEPT ![c].pc = "close"]
            /\ UNCHANGED diag
       ELSE /\ diag' = diag \cup {[channel |-> "error", from |-> "write", call |-> c]}
            /\ fcalls' = [fcalls EXCEPT ![c].pc = "done", ![c].promise = "resolved"]
            /\ UNCHANGED writables
    /\ UNCHANGED <<fConfig, fState, fHandle, fInits, avars, interp>>
    /\ UNCHANGED lvars

\* the promise of writable.write settles. Rejected: catch reports the error.
\* Either way finally calls writable.close().
FileWriteSettles(c, ok) ==
    /\ c \in 1..Len(fcalls)
    /\ fcalls[c].pc = "write"
    /\ diag' = IF ok THEN diag
               ELSE diag \cup {[channel |-> "error", from |-> "write", call |-> c]}
    /\ writables' = [writables EXCEPT ![fcalls[c].writable].closes = @ + 1]
    /\ fcalls' = [fcalls EXCEPT ![c].pc = "close"]
    /\ UNCHANGED <<fConfig, fState, fHandle, fInits, avars, interp>>
    /\ UNCHANGED lvars

\* the promise of writable.close settles. The await is in the finally
\* block, outside the try: a rejection rejects the promise of log.
FileCloseSettles(c, ok) ==
    /\ c \in 1..Len(fcalls)
    /\ fcalls[c].pc = "close"
    /\ fcalls' = [fcalls EXCEPT ![c].pc = "done",
                                ![c].promise = IF ok THEN "resolved" ELSE "rejected"]
    /\ UNCHANGED <<fConfig, fState, fHandle, fInits, writables, diag, avars, interp>>
    /\ UNCHANGED lvars

\* a FileTransport has been constructed with some config
FileInit ==
    /\ variant = "browser"
    /\ LoggerInit
    /\ fConfig \in FileConfigs
    /\ fState = "constructed"
    /\ fHandle = 0
    /\ fInits = <<>>
    /\ fcalls = <<>>
    /\ writables = <<>>
    /\ diag = {}
    /\ ApiIdle
    /\ interp = Undefined

FileNext ==
    \/ \E ok \in BOOLEAN : FileInitialize(ok)
    \/ \E r \in FileRecords : FileLog(r)
    \/ \E c \in 1..MaxFileCalls, ok \in BOOLEAN : FileCreateWritableSettles(c, ok)
    \/ \E c \in 1..MaxFileCalls, ok \in BOOLEAN : FileWriteSettles(c, ok)
    \/ \E c \in 1..MaxFileCalls, ok \in BOOLEAN : FileCloseSettles(c, ok)

\* every promise of the file system settles, and the continuation of an
\* await runs once its promise has settled
FileFairness ==
    \A c \in 1..MaxFileCalls :
        /\ WF_vars(\E ok \in BOOLEAN : FileCreateWritableSettles(c, ok))
        /\ WF_vars(\E ok \in BOOLEAN : FileWriteSettles(c, ok))
        /\ WF_vars(\E ok \in BOOLEAN : FileCloseSettles(c, ok))

FileSpec == FileInit /\ [][FileNext]_vars /\ FileFairness

(* ------------------------------ JS values ----------------------------- *)
\* A JavaScript value is a record: t is its kind and one field holds its
\* content, the others being left empty: s the characters of a string, n a
\* number, b a boolean, e the elements of an array (JSHole standing for an
\* index never assigned), p the own properties [k, v] of an object in
\* property order, k a character sequence.
JSValue(t, s, n, b, e, p) == [t |-> t, s |-> s, n |-> n, b |-> b, e |-> e, p |-> p]
JSUndefined == JSValue("undefined", <<>>, 0, FALSE, <<>>, <<>>)
JSNull == JSValue("null", <<>>, 0, FALSE, <<>>, <<>>)
JSHole == JSValue("hole", <<>>, 0, FALSE, <<>>, <<>>)
Bool(b) == JSValue("boolean", <<>>, 0, b, <<>>, <<>>)
Num(n) == JSValue("number", <<>>, n, FALSE, <<>>, <<>>)
Str(chars) == JSValue("string", chars, 0, FALSE, <<>>, <<>>)
Arr(elems) == JSValue("array", <<>>, 0, FALSE, elems, <<>>)
Obj(props) == JSValue("object", <<>>, 0, FALSE, <<>>, props)

\* obj[key]: undefined when obj has no such property
GetProp(obj, key) ==
    IF \E i \in 1..Len(obj.p) : obj.p[i].k = key
    THEN obj.p[CHOOSE i \in 1..Len(obj.p) : obj.p[i].k = key].v
    ELSE JSUndefined

\* obj[key] = value on the property list props
PutProp(props, key, value) ==
    IF \E i \in 1..Len(props) : props[i].k = key
    THEN [i \in 1..Len(props) |-> IF props[i].k = key THEN [k |-> key, v |-> value]
                                   ELSE props[i]]
    ELSE Append(props, [k |-> key, v |-> value])

\* x instanceof Object, for the values at hand
InstanceofObject(x) == x.t \in {"array", "object"}

\* the falsy values: x || y is y for them
Falsy(x) ==
    \/ x.t \in {"undefined", "null", "hole"}
    \/ x = Bool(FALSE)
    \/ x = Num(0)
    \/ x = Str(<<>>)

DigitChars == <<"0", "1", "2", "3", "4", "5", "6", "7", "8", "9">>
IsDigit(ch) == \E d \in 1..Len(DigitChars) : DigitChars[d] = ch
DigitValue(ch) == (CHOOSE d \in 1..Len(DigitChars) : DigitChars[d] = ch) - 1

\* the decimal text of a natural number
RECURSIVE NumberToString(_)
NumberToString(n) ==
    IF n < Len(DigitChars)
    THEN <<DigitChars[n + 1]>>
    ELSE NumberToString(n \div Len(DigitChars)) \o <<DigitChars[(n % Len(DigitChars)) + 1]>>

\* String(x), the conversion JSON.parse and String.prototype.replace apply
\* to what they are given: an array is its elements joined by commas, null,
\* undefined and missing elements giving the empty string; an object is
\* "[object Object]"
RECURSIVE StringOf(_)
StringOf(x) ==
    CASE x.t = "string" -> x.s
      [] x.t = "number" -> NumberToString(x.n)
      [] x.t = "boolean" -> IF x.b THEN <<"t", "r", "u", "e">> ELSE <<"f", "a", "l", "s", "e">>
      [] x.t = "null" -> <<"n", "u", "l", "l">>
      [] x.t \in {"undefined", "hole"} -> <<"u", "n", "d", "e", "f", "i", "n", "e", "d">>
      [] x.t = "object" ->
            <<"[", "o", "b", "j", "e", "c", "t", " ", "O", "b", "j", "e", "c", "t", "]">>
      [] x.t = "array" ->
            LET Elem(i) == IF x.e[i].t \in {"undefined", "null", "hole"}
                           THEN <<>> ELSE StringOf(x.e[i])
                Join[i \in 0..Len(x.e)] ==
                    IF i = 0 THEN <<>>
                    ELSE IF i = 1 THEN Elem(1)
                    ELSE Join[i - 1] \o <<",">> \o Elem(i)
            IN  Join[Len(x.e)]

\* JSON.stringify(x) for x an array, an object or a value inside one: an
\* element that is undefined or missing is written null, a property whose
\* value is undefined is left out
RECURSIVE JSONStringify(_)
JSONStringify(x) ==
    CASE x.t = "string" -> <<"\"">> \o x.s \o <<"\"">>
      [] x.t = "number" -> NumberToString(x.n)
      [] x.t = "boolean" -> StringOf(x)
      [] x.t \in {"null", "undefined", "hole"} -> <<"n", "u", "l", "l">>
      [] x.t = "array" ->
            LET Join[i \in 0..Len(x.e)] ==
                    IF i = 0 THEN <<>>
                    ELSE IF i = 1 THEN JSONStringify(x.e[1])
                    ELSE Join[i - 1] \o <<",">> \o JSONStringify(x.e[i])
            IN  <<"[">> \o Join[Len(x.e)] \o <<"]">>
      [] x.t = "object" ->
            LET own == SelectSeq(x.p, LAMBDA m : m.v.t # "undefined")
                Member(i) == <<"\"">> \o own[i].k \o <<"\"", ":">> \o JSONStringify(own[i].v)
                Join[i \in 0..Len(own)] ==
                    IF i = 0 THEN <<>>
                    ELSE IF i = 1 THEN Member(1)
                    ELSE Join[i - 1] \o <<",">> \o Member(i)
            IN  <<"{">> \o Join[Len(own)] \o <<"}">>

\* JSON.parse: a parser of JSON text by recursive descent. A result is
\* [ok, value, next]: whether a value was read at the position, the value
\* and the position behind it. White space is the blank; numbers are the
\* naturals and strings hold no escape, the texts that arise here holding
\* no sign, fraction, exponent or backslash
ParseFailure == [ok |-> FALSE, value |-> JSUndefined, next |-> 0]

RECURSIVE SkipWhitespace(_, _)
SkipWhitespace(s, i) ==
    IF i <= Len(s) /\ s[i] = " " THEN SkipWhitespace(s, i + 1) ELSE i

HasWord(s, i, w) ==
    /\ i + Len(w) - 1 <= Len(s)
    /\ \A k \in 1..Len(w) : s[i + k - 1] = w[k]

RECURSIVE ParseNumber(_, _, _)
ParseNumber(s, i, acc) ==
    IF i <= Len(s) /\ IsDigit(s[i])
    THEN ParseNumber(s, i + 1, acc * Len(DigitChars) + DigitValue(s[i]))
    ELSE [ok |-> TRUE, value |-> Num(acc), next |-> i]

RECURSIVE ParseValue(_, _)
RECURSIVE ParseElements(_, _, _)
RECURSIVE ParseMembers(_, _, _)
ParseValue(s, start) ==
    LET i == SkipWhitespace(s, start)
    IN  IF i > Len(s) THEN ParseFailure
        ELSE IF HasWord(s, i, <<"n", "u", "l", "l">>)
        THEN [ok |-> TRUE, value |-> JSNull, next |-> i + 4]
        ELSE IF HasWord(s, i, <<"t", "r", "u", "e">>)
        THEN [ok |-> TRUE, value |-> Bool(TRUE), next |-> i + 4]
        ELSE IF HasWord(s, i, <<"f", "a", "l", "s", "e">>)
        THEN [ok |-> TRUE, value |-> Bool(FALSE), next |-> i + 5]
        ELSE IF s[i] = "0"
        THEN [ok |-> TRUE, value |-> Num(0), next |-> i + 1]
        ELSE IF IsDigit(s[i])
        THEN ParseNumber(s, i, 0)
        ELSE IF s[i] = "\""
        THEN IF \E j \in (i + 1)..Len(s) : s[j] = "\""
             THEN LET j == CHOOSE j \in (i + 1)..Len(s) :
                               s[j] = "\"" /\ \A k \in (i + 1)..(j - 1) : s[k] # "\""
                  IN  [ok |-> TRUE, value |-> Str(SubSeq(s, i + 1, j - 1)), next |-> j + 1]
             ELSE ParseFailure
        ELSE IF s[i] = "["
        THEN LET k == SkipWhitespace(s, i + 1)
             IN  IF k <= Len(s) /\ s[k] = "]"
                 THEN [ok |-> TRUE, value |-> Arr(<<>>), next |-> k + 1]
                 ELSE ParseElements(s, i + 1, <<>>)
        ELSE IF s[i] = "{"
        THEN LET k == SkipWhitespace(s, i + 1)
             IN  IF k <= Len(s) /\ s[k] = "}"
                 THEN [ok |-> TRUE, value |-> Obj(<<>>), next |-> k + 1]
                 ELSE ParseMembers(s, i + 1, <<>>)
        ELSE ParseFailure

ParseElements(s, i, acc) ==
    LET r == ParseValue(s, i)
        k == SkipWhitespace(s, r.next)
    IN  IF ~r.ok \/ k > Len(s) THEN ParseFailure
        ELSE IF s[k] = "," THEN ParseElements(s, k + 1, Append(acc, r.value))
        ELSE IF s[k] = "]" THEN [ok |-> TRUE, value |-> Arr(Append(acc, r.value)), next |-> k + 1]
        ELSE ParseFailure

ParseMembers(s, i, acc) ==
    LET q == SkipWhitespace(s, i)
        key == IF q <= Len(s) /\ s[q] = "\"" THEN ParseValue(s, q) ELSE ParseFailure
        c == SkipWhitespace(s, key.next)
        r == IF key.ok /\ c <= Len(s) /\ s[c] = ":" THEN ParseValue(s, c + 1) ELSE ParseFailure
        k == SkipWhitespace(s, r.next)
    IN  IF ~r.ok \/ k > Len(s) THEN ParseFailure
        ELSE IF s[k] = "," THEN ParseMembers(s, k + 1, PutProp(acc, key.value.s, r.value))
        ELSE IF s[k] = "}"
        THEN [ok |-> TRUE, value |-> Obj(PutProp(acc, key.value.s, r.value)), next |-> k + 1]
        ELSE ParseFailure

\* JSON.parse(x): x is converted to a string first; ok is FALSE where
\* JSON.parse throws a SyntaxError
JSONParse(x) ==
    LET s == StringOf(x)
        r == ParseValue(s, 1)
    IN  IF r.ok /\ SkipWhitespace(s, r.next) > Len(s)
        THEN [ok |-> TRUE, value |-> r.value]
        ELSE [ok |-> FALSE, value |-> JSUndefined]

(* ----------------------------- interpolate ---------------------------- *)
\* /\{\{(.+?)}}/ tried at position i of s: "{{", then one character or
\* more, none a line terminator, up to the first "}}" found from i + 3 on.
\* MatchClose is the position of that "}}", 0 when there is no match at i.
MatchClose(s, i) ==
    IF /\ i + 4 <= Len(s)
       /\ s[i] = "{" /\ s[i + 1] = "{"
       /\ \E j \in (i + 3)..(Len(s) - 1) : s[j] = "}" /\ s[j + 1] = "}"
    THEN LET j == CHOOSE j \in (i + 3)..(Len(s) - 1) :
                      /\ s[j] = "}" /\ s[j + 1] = "}"
                      /\ \A k \in (i + 3)..(j - 1) : ~(s[k] = "}" /\ s[k + 1] = "}")
         IN  IF \E k \in (i + 2)..(j - 1) : s[k] = "\n" THEN 0 ELSE j
    ELSE 0

\* the replacer of the string branch: (_match, br) => { const val =
\* model[br] || ''; if(val instanceof Object) return JSON.stringify(val);
\* return val }, and replace converts what it returns to a string
Replacer(br, model) ==
    LET found == GetProp(model, br)
        val == IF Falsy(found) THEN Str(<<>>) ELSE found
    IN  IF InstanceofObject(val) THEN JSONStringify(val) ELSE StringOf(val)

\* template.replace(/\{\{(.+?)}}/g, replacer) from position i on: the
\* matches are taken from left to right and do not overlap
RECURSIVE StringReplace(_, _, _)
StringReplace(s, i, model) ==
    IF i > Len(s) THEN <<>>
    ELSE IF MatchClose(s, i) # 0
    THEN Replacer(SubSeq(s, i + 2, MatchClose(s, i) - 1), model)
             \o StringReplace(s, MatchClose(s, i) + 2, model)
    ELSE <<s[i]>> \o StringReplace(s, i + 1, model)

\* SlotValue without the JSON.parse: the interpolated value is stored as
\* it is unless it is undefined or empty
SlotValue_noParse(val) ==
    IF val # JSUndefined /\ val # Str(<<>>)
    THEN [set |-> TRUE, value |-> val]
    ELSE [set |-> FALSE, value |-> JSUndefined]

\* SlotValue without the test in the catch block: what does not parse is
\* stored whatever it is
SlotValue_keepEmpty(val) ==
    IF JSONParse(val).ok
    THEN [set |-> TRUE, value |-> JSONParse(val).value]
    ELSE [set |-> TRUE, value |-> val]

\* what the loop of the container branch does with the interpolated value
\* of a slot: try{ interpolated[key] = JSON.parse(val) }catch(_e){ if(val
\* !== undefined && val !== '') interpolated[key] = val }. set tells
\* whether the slot is assigned.
SlotValue(val) ==
    IF JSONParse(val).ok
    THEN [set |-> TRUE, value |-> JSONParse(val).value]
    ELSE IF val # JSUndefined /\ val # Str(<<>>)
    THEN [set |-> TRUE, value |-> val]
    ELSE [set |-> FALSE, value |-> JSUndefined]

\* interpolate(template, model)
RECURSIVE interpolator(_, _)
interpolator(template, model) ==
    IF InstanceofObject(template)
    THEN IF template.t = "array"
         THEN LET slots == [i \in 1..Len(template.e) |->
                               IF template.e[i] = JSHole
                               THEN [set |-> FALSE, value |-> JSUndefined]
                               ELSE SlotValue(interpolator(template.e[i], model))]
                  \* the length of an array is one more than its last index
                  length == IF \E i \in 1..Len(slots) : slots[i].set
                            THEN CHOOSE i \in 1..Len(slots) :
                                     slots[i].set /\ \A j \in (i + 1)..Len(slots) : ~slots[j].set
                            ELSE 0
              IN  Arr([i \in 1..length |-> IF slots[i].set THEN slots[i].value ELSE JSHole])
         ELSE LET slots == [i \in 1..Len(template.p) |->
                               [k |-> template.p[i].k,
                                slot |-> SlotValue(interpolator(template.p[i].v, model))]]
                  kept == SelectSeq(slots, LAMBDA e : e.slot.set)
              IN  Obj([i \in 1..Len(kept) |-> [k |-> kept[i].k, v |-> kept[i].slot.value]])
    ELSE IF template.t # "string"
    THEN template
    ELSE Str(StringReplace(template.s, 1, model))

\* the placeholder {{key}}
Placeholder(key) == <<"{", "{">> \o key \o <<"}", "}">>

\* templates handed to interpolate
Templates ==
    {Str(<<"T", ":", " ">> \o Placeholder(<<"x">>)),
     Str(Placeholder(<<"x">>)),
     Str(Placeholder(<<"x">>) \o <<",", " ">> \o Placeholder(<<"x">>)),
     Str(<<"a", "b">>),
     Str(Placeholder(<<"y">>) \o <<"b">>),
     Num(1),
     Obj(<<[k |-> <<"b">>, v |-> Str(Placeholder(<<"x">>))]>>),
     Obj(<<[k |-> <<"b">>, v |-> Str(Placeholder(<<"x">>))],
           [k |-> <<"i", "d">>, v |-> Str(<<"T", ":", " ">> \o Placeholder(<<"a">>))]>>),
     Arr(<<Str(Placeholder(<<"a">>)), Str(Placeholder(<<"x">>))>>),
     Arr(<<Str(Placeholder(<<"x">>)), Str(<<"a", "b">>)>>),
     Obj(<<[k |-> <<"p">>, v |-> Bool(TRUE)], [k |-> <<"t">>, v |-> Num(1)]>>),
     Obj(<<[k |-> <<"a">>, v |-> Str(<<"1">>)]>>),
     Obj(<<[k |-> <<"a">>, v |-> Str(<<>>)], [k |-> <<"b">>, v |-> Str(<<"a", "b">>)]>>),
     Obj(<<[k |-> <<"a">>, v |-> Arr(<<Num(5)>>)]>>),
     Obj(<<[k |-> <<"h">>, v |-> Obj(<<[k |-> <<"k">>, v |-> Str(Placeholder(<<"x">>))]>>)],
           [k |-> <<"u">>, v |-> JSUndefined]>>)}

\* models handed to interpolate
Models ==
    {Obj(<<>>),
     Obj(<<[k |-> <<"x">>, v |-> Str(<<"p", "a", "s", "s">>)]>>),
     Obj(<<[k |-> <<"x">>, v |-> Str(<<"p">>)], [k |-> <<"a">>, v |-> Str(<<"q">>)]>>),
     Obj(<<[k |-> <<"x">>, v |-> Num(0)]>>),
     Obj(<<[k |-> <<"x">>, v |-> Num(12)]>>),
     Obj(<<[k |-> <<"x">>, v |-> Bool(FALSE)]>>),
     Obj(<<[k |-> <<"x">>, v |-> JSNull]>>),
     Obj(<<[k |-> <<"x">>, v |-> Arr(<<Str(<<"t">>), Num(10)>>)]>>),
     Obj(<<[k |-> <<"x">>, v |-> Arr(<<Num(1), JSUndefined>>)]>>),
     Obj(<<[k |-> <<"x">>, v |-> Obj(<<[k |-> <<"a">>, v |-> Num(1)],
                                       [k |-> <<"b">>, v |-> Num(2)]>>)]>>)}

\* interpolate(template, model) returns
Interpolate ==
    /\ ~interp.done
    /\ interp' = [interp EXCEPT !.done = TRUE,
                                !.result = interpolator(interp.template, interp.model)]
    /\ UNCHANGED <<fvars, diag, avars>>
    /\ UNCHANGED lvars

\* a call of interpolate with a template and a model
InterpInit ==
    /\ variant = "browser"
    /\ LoggerInit
    /\ FileIdle
    /\ diag = {}
    /\ ApiIdle
    /\ interp \in [template : Templates, model : Models, done : {FALSE}, result : {JSUndefined}]

InterpNext == Interpolate

InterpSpec == InterpInit /\ [][InterpNext]_vars

(* ---------------------------- APITransport ---------------------------- *)
\* property names of the request template and of the record
KeyUrl == <<"u", "r", "l">>
KeyMethod == <<"m", "e", "t", "h", "o", "d">>
KeyHeaders == <<"h", "e", "a", "d", "e", "r", "s">>
KeyBody == <<"b", "o", "d", "y">>
KeyMsg == <<"m", "s", "g">>
KeyLevel == <<"l", "e", "v", "e", "l">>
KeyCategory == <<"c", "a", "t", "e", "g", "o", "r", "y">>

\* request templates given to APITransport(config): a fixed url with the
\* message as body; a url and a body that take fields of the record
ApiConfigs ==
    {Obj(<<[k |-> KeyUrl, v |-> Str(<<"/", "l", "o", "g", "s">>)],
           [k |-> KeyMethod, v |-> Str(<<"P", "O", "S", "T">>)],
           [k |-> KeyHeaders, v |-> Obj(<<[k |-> <<"t">>, v |-> Str(<<"j">>)]>>)],
           [k |-> KeyBody, v |-> Str(Placeholder(KeyMsg))]>>),
     Obj(<<[k |-> KeyUrl, v |-> Str(<<"/">> \o Placeholder(KeyLevel))],
           [k |-> KeyMethod, v |-> Str(<<"P", "U", "T">>)],
           [k |-> KeyBody, v |-> Obj(<<[k |-> KeyMsg, v |-> Str(Placeholder(KeyMsg))],
                                      [k |-> KeyCategory, v |-> Str(Placeholder(KeyCategory))]>>)]>>)}

\* records handed to log(params)
ApiRecords ==
    {Obj(<<[k |-> KeyLevel, v |-> Str(<<"i", "n", "f", "o">>)],
           [k |-> KeyMsg, v |-> Str(<<"h", "i">>)],
           [k |-> KeyCategory, v |-> Str(<<"s">>)]>>),
     Obj(<<[k |-> KeyLevel, v |-> Str(<<"w", "a", "r", "n">>)],
           [k |-> KeyMsg, v |-> Str(<<"a", " ", "b">>)]>>)}

\* what can become of a request: a success response, a response with a
\* non-success status (fetch fulfils its promise with it all the same), or
\* a network error (fetch rejects)
FetchOutcomes == {"success", "nonSuccess", "networkError"}

\* the request fetch is given: fetch(merged.url, {method: merged.method,
\* headers: <the entries of merged.headers || {}>, body: merged.body})
FetchArguments(merged) ==
    [url |-> GetProp(merged, KeyUrl),
     method |-> GetProp(merged, KeyMethod),
     headers |-> IF Falsy(GetProp(merged, KeyHeaders)) THEN Obj(<<>>)
                 ELSE Obj(GetProp(merged, KeyHeaders).p),
     body |-> GetProp(merged, KeyBody)]

\* apiTransport.log(params) up to its await: the config is interpolated
\* against the record and fetch is called with the result
ApiLog(params) ==
    /\ Len(acalls) < MaxApiCalls
    /\ acalls' = Append(acalls, [pc |-> "fetch", params |-> params, promise |-> "pending"])
    /\ requests' = Append(requests, [call |-> Len(acalls) + 1]
                                        @@ FetchArguments(interpolator(aConfig, params)))
    /\ UNCHANGED <<aConfig, fvars, diag, interp>>
    /\ UNCHANGED lvars

\* ApiFetchSettles without the try/catch round the await: a network error
\* rejects the promise of log
ApiFetchSettles_noCatch(c, outcome) ==
    /\ c \in 1..Len(acalls)
    /\ acalls[c].pc = "fetch"
    /\ IF outcome = "networkError"
       THEN /\ acalls' = [acalls EXCEPT ![c].pc = "done", ![c].promise = "rejected"]
            /\ UNCHANGED diag
       ELSE /\ acalls' = [acalls EXCEPT ![c].pc = "done", ![c].promise = "resolved"]
            /\ diag' = diag \cup {[channel |-> "debug", from |-> outcome, call |-> c]}
    /\ UNCHANGED <<aConfig, requests, fvars, interp>>
    /\ UNCHANGED lvars

\* the promise of fetch settles. Fulfilled, whatever the status of the
\* response: console.debug(response). Rejected: catch, console.error(e).
\* Then the function ends and the promise of log is fulfilled.
ApiFetchSettles(c, outcome) ==
    /\ c \in 1..Len(acalls)
    /\ acalls[c].pc = "fetch"
    /\ acalls' = [acalls EXCEPT ![c].pc = "done", ![c].promise = "resolved"]
    /\ diag' = diag \cup {[channel |-> IF outcome = "networkError" THEN "error" ELSE "debug",
                           from |-> outcome, call |-> c]}
    /\ UNCHANGED <<aConfig, requests, fvars, interp>>
    /\ UNCHANGED lvars

\* an APITransport has been constructed with a request template
ApiInit ==
    /\ variant = "browser"
    /\ LoggerInit
    /\ FileIdle
    /\ diag = {}
    /\ aConfig \in ApiConfigs
    /\ acalls = <<>>
    /\ requests = <<>>
    /\ interp = Undefined

ApiNext ==
    \/ \E r \in ApiRecords : ApiLog(r)
    \/ \E c \in 1..MaxApiCalls, o \in FetchOutcomes : ApiFetchSettles(c, o)

\* the promise of fetch settles and the continuation of the await runs
ApiFairness ==
    \A c \in 1..MaxApiCalls : WF_vars(\E o \in FetchOutcomes : ApiFetchSettles(c, o))

ApiSpec == ApiInit /\ [][ApiNext]_vars /\ ApiFairness

(* ------------------------- helpers of the claims ---------------------- *)
\* the transports of the microtasks a step has added to the queue, in order
NewTaskTransports ==
    [i \in 1..(Len(queue') - Len(queue)) |-> queue'[Len(queue) + i].transport]

\* how many queued microtasks, and how many invocations made, belong to
\* slot s of call c
Pending(c, s) == Cardinality({i \in 1..Len(queue) : queue[i].call = c /\ queue[i].slot = s})
Done(c, s) == Cardinality({i \in 1..Len(invoked) : invoked[i].call = c /\ invoked[i].slot = s})

\* a step that is a level-method call, and the call it made
CallStep == Len(calls') = Len(calls) + 1
TheCall == calls'[Len(calls')]

\* number of occurrences of x in the sequence q
Count(q, x) == Cardinality({i \in 1..Len(q) : q[i] = x})

(* -------------------------------- C1 ---------------------------------- *)
\* C1 as stated: for every threshold L1 and every message level L2 of the
\* six, noop included, a call of the L2 method hands the record to every
\* registered transport if index(L2) <= index(L1) and to none otherwise.
C1_AllSixLevels ==
    [][CallStep =>
          NewTaskTransports =
              IF indexOf(levels, TheCall.method) <= indexOf(levels, currentLevel)
              THEN ObjectValues(transports)
              ELSE <<>>]_vars

\* C1, amended: for every threshold L1 and every message level L2 among
\* error, warn, info, debug, trace, a call of the L2 method queues the record
\* for every registered transport if index(L2) <= index(L1) and for none
\* otherwise; a call of the noop method queues nothing whatever L1 is; and
\* every queued record is handed to its transport when its microtask runs.
C1_ThresholdFilter ==
    [][/\ CallStep =>
            NewTaskTransports =
                IF /\ TheCall.method # "noop"
                   /\ indexOf(levels, TheCall.method) <= indexOf(levels, currentLevel)
                THEN ObjectValues(transports)
                ELSE <<>>
       /\ Len(queue') < Len(queue) =>
            /\ Len(invoked') = Len(invoked) + 1
            /\ invoked'[Len(invoked')].transport = Head(queue).transport
            /\ invoked'[Len(invoked')].call = Head(queue).call]_vars

\* a debug call made and delivered to two transports with the threshold debug
C1_Witness ==
    /\ currentLevel = "debug"
    /\ lastSet = "debug"
    /\ Len(calls) = 1 /\ calls[1].method = "debug" /\ Len(calls[1].registry) = 2
    /\ queue = <<>>
    /\ Len(invoked) = 2

(* -------------------------------- C2 ---------------------------------- *)
\* C2: for every level-method call that passes the threshold, each transport
\* in the registry at the call has its log invoked exactly once for that
\* call, with a record whose msg and level are those of the call; no
\* transport is invoked twice for one call. Stated on the invocations made:
\* each carries the msg and the level of its call, none is made twice, and
\* once the queue is empty none is missing.
C2_OncePerTransportWithCallFields ==
    /\ \A i \in 1..Len(invoked) :
          /\ invoked[i].record.msg = calls[invoked[i].call].msg
          /\ invoked[i].record.level = calls[invoked[i].call].method
          /\ Done(invoked[i].call, invoked[i].slot) = 1
    /\ queue = <<>> =>
          \A i \in 1..Len(invoked) :
              \A s \in 1..Len(calls[invoked[i].call].registry) : Done(invoked[i].call, s) = 1

(* -------------------------------- C3 ---------------------------------- *)
\* C3: a transport whose log throws or rejects (or that has no log yet)
\* stops nothing: no such failure reaches the caller of a level method, and
\* of a dispatched call every transport registered when the call was made
\* has the record either still queued once or handed to it once - all of
\* them the same record - and a queued microtask can always run.
C3_FailureIsolation ==
    variant = "browser" =>
        /\ err # "TypeError"
        /\ queue # <<>> => ENABLED RunMicrotask
        /\ \A c \in 1..Len(calls) :
              (\E s \in 1..Len(calls[c].registry) : Pending(c, s) + Done(c, s) > 0) =>
                  \A s \in 1..Len(calls[c].registry) : Pending(c, s) + Done(c, s) = 1
        /\ \A i \in 1..Len(queue) :
              /\ queue[i].call \in 1..Len(calls)
              /\ queue[i].slot \in 1..Len(calls[queue[i].call].registry)
              /\ queue[i].transport = calls[queue[i].call].registry[queue[i].slot]
        /\ \A i \in 1..Len(invoked) :
              /\ invoked[i].call \in 1..Len(calls)
              /\ invoked[i].slot \in 1..Len(calls[invoked[i].call].registry)
              /\ invoked[i].transport = calls[invoked[i].call].registry[invoked[i].slot]
              /\ \A j \in 1..Len(invoked) :
                    invoked[j].call = invoked[i].call => invoked[j].record = invoked[i].record

\* the first transport of a call failed and the second one, registered
\* behind it, got the record all the same
C3_Witness ==
    /\ Len(invoked) = 2
    /\ invoked[1].call = invoked[2].call
    /\ invoked[1].slot = 1 /\ invoked[1].outcome = "threw"
    /\ invoked[2].slot = 2 /\ invoked[2].outcome = "returned"
    /\ invoked[1].record = invoked[2].record
    /\ queue = <<>>
    /\ err = "none"

(* -------------------------------- C4 ---------------------------------- *)
\* C4: no transport's log is invoked in the step of the level-method call
\* that produced the record; an invocation is made by a later step that
\* takes a microtask from the queue, for a call that has returned.
C4_DeferredDispatch ==
    [][Len(invoked') > Len(invoked) =>
          /\ calls' = calls
          /\ queue # <<>> /\ queue' = Tail(queue)
          /\ \A i \in (Len(invoked) + 1)..Len(invoked') :
                invoked'[i].call \in 1..Len(calls)]_vars

\* a call has returned with its microtasks queued and none run; then one runs
C4_Witness ==
    /\ Len(calls) = 1
    /\ Len(invoked) = 1
    /\ Len(queue) = 1
    /\ queue[1].call = 1 /\ invoked[1].call = 1

(* -------------------------------- C5 ---------------------------------- *)
\* C5: the registry of the browser logger holds exactly the names whose
\* latest operation was addTransport, each once and mapped to the transport
\* of that latest add; removeTransport leaves the registry without the name,
\* raises nothing and, for a name that is absent, changes nothing.
C5_Registry ==
    /\ [](variant = "browser" =>
            /\ Keys(transports) = {n \in Names : added[n] # "absent"}
            /\ \A i \in 1..Len(transports) :
                  /\ transports[i].transport = added[transports[i].name]
                  /\ \A j \in 1..Len(transports) :
                        transports[j].name = transports[i].name => j = i)
    /\ [][\A n \in Names :
             removeTransport(n) =>
                 /\ n \notin Keys(transports')
                 /\ err' = "none"
                 /\ n \notin Keys(transports) => transports' = transports]_vars

\* default, registered at start, was removed and testTransport, re-added,
\* maps to the transport of its latest add
C5_Witness ==
    /\ variant = "browser"
    /\ transports = <<[name |-> "testTransport", transport |-> "custom"]>>
    /\ added["default"] = "absent"
    /\ err = "none"

(* -------------------------------- C6 ---------------------------------- *)
\* C6: in the server Logger, removeTransport(name) with a name that is not
\* in the name table completes without an error and leaves the name table
\* and the backend's transport list unchanged.
C6_RemoveAbsentIsNoop ==
    [][\A n \in ServerNames :
          (sInstance /\ n \notin Keys(sTypes) /\ ServerRemoveTransportByName(n)) =>
              /\ err' = "none"
              /\ UNCHANGED <<sTypes, sPipes>>]_vars

(* -------------------------------- C7 ---------------------------------- *)
\* C7: in the server Logger the backend's transport list holds a transport
\* the caller added at most once per name it is registered under.
C7_OnePerName ==
    variant = "server" =>
        \A t \in WinstonTransports :
            Count(sPipes, t) <= Cardinality({i \in 1..Len(sTypes) : sTypes[i].transport = t})

(* -------------------------------- C8 ---------------------------------- *)
\* C8: in the browser logger the threshold is always one of the six level
\* names, and setLogLevel with any other value throws and leaves the
\* threshold and the registry as they were.
C8_InvalidLevelRejected ==
    /\ [](variant = "browser" => \E i \in 1..Len(levels) : currentLevel = levels[i])
    /\ [][\A l \in LevelInputs \ LevelNames :
             setLogLevel(l) =>
                 /\ err' = "InvalidLevel"
                 /\ UNCHANGED <<currentLevel, transports>>]_vars

\* setLogLevel('verbose') has just thrown with the threshold at debug
C8_Witness ==
    /\ err = "InvalidLevel"
    /\ currentLevel = "debug"
    /\ lastSet = "debug"

(* -------------------------------- C9 ---------------------------------- *)
\* C9: the level read back (Logger.level in the browser, getLogLevel() on
\* the constructor or a child in the server) is the value the latest
\* setLogLevel stored, whoever called it, and a level method of any browser
\* logger instance filters against that value.
C9_SharedThreshold ==
    /\ [](lastSet # "unset" =>
            /\ variant = "browser" => LoggerLevel = lastSet
            /\ variant = "server" => getLogLevel = lastSet)
    /\ [][(CallStep /\ lastSet # "unset") =>
             NewTaskTransports =
                 IF /\ TheCall.method # "noop"
                    /\ indexOf(levels, TheCall.method) <= indexOf(levels, lastSet)
                 THEN ObjectValues(transports)
                 ELSE <<>>]_vars

\* two instances exist, the threshold was set to warn, and a warn call of
\* the instance of file.spec.js was delivered
C9_Witness ==
    /\ variant = "browser"
    /\ lastSet = "warn" /\ LoggerLevel = "warn"
    /\ loggers = Categories
    /\ Len(calls) = 1 /\ calls[1].category = "file.spec.js" /\ calls[1].method = "warn"
    /\ Len(invoked) = 1 /\ invoked[1].record.category = "file.spec.js"

(* -------------------------------- C10 --------------------------------- *)
\* C10: a call of the noop method changes neither the queue, nor the
\* invocations made, nor the threshold, nor the registry, and no microtask
\* or invocation ever belongs to it.
C10_NoopIsNoop ==
    /\ [][(CallStep /\ TheCall.method = "noop") =>
             UNCHANGED <<queue, invoked, currentLevel, transports>>]_vars
    /\ [](\A c \in 1..Len(calls) :
             calls[c].method = "noop" =>
                 /\ \A i \in 1..Len(queue) : queue[i].call # c
                 /\ \A i \in 1..Len(invoked) : invoked[i].call # c)

\* noop was called with two transports registered; nothing is queued or
\* invoked although the threshold lets every level through
C10_Witness ==
    /\ Len(calls) = 1 /\ calls[1].method = "noop" /\ Len(calls[1].registry) = 2
    /\ currentLevel = "trace"
    /\ queue = <<>> /\ invoked = <<>>
    /\ err = "none"

(* -------------------------------- C11 --------------------------------- *)
\* C11: at start the shared state of the browser logger holds the one
\* transport 'default' and the threshold 'noop'; setLogLevel('noop') is
\* accepted without an error; and while the threshold is 'noop' a call of
\* error, warn, info, debug or trace queues nothing and invokes no transport.
C11_StartsDisabled ==
    /\ (variant = "browser" =>
            /\ currentLevel = "noop"
            /\ Keys(transports) = {"default"} /\ Len(transports) = 1)
    /\ [][setLogLevel("noop") => (err' = "none" /\ currentLevel' = "noop")]_vars
    /\ [][(CallStep /\ currentLevel = "noop") => UNCHANGED <<queue, invoked>>]_vars

\* the threshold was set back to noop, then error was called with a
\* transport registered: nothing is queued, nothing invoked
C11_Witness ==
    /\ lastSet = "noop" /\ currentLevel = "noop"
    /\ Len(calls) = 1 /\ calls[1].method = "error" /\ Len(calls[1].registry) = 2
    /\ queue = <<>> /\ invoked = <<>>
    /\ err = "none"

(* -------------------------------- C19 --------------------------------- *)
\* C19: in both variants, Logger called with the category undefined throws,
\* makes no instance and leaves the threshold and the transports as they were.
C19_MissingCategory ==
    [][(NewLogger(Undefined) \/ \E a \in ServerArgs : a.type = "undefined" /\ ServerLogger(a)) =>
          /\ err' = "MissingCategory"
          /\ UNCHANGED <<loggers, sLoggers, sInstance>>
          /\ UNCHANGED <<currentLevel, transports, sLevel, sPipes, sTypes>>]_vars

\* the server Logger, configured and with a transport added, has just
\* thrown for a missing category
C19_Witness ==
    /\ variant = "server"
    /\ err = "MissingCategory"
    /\ sInstance /\ sLevel = "debug" /\ Len(sPipes) = 3 /\ Len(sTypes) = 1

(* -------------------------------- C20 --------------------------------- *)
\* C20: the threshold is read once, when the level method is called. Of a
\* call that passed the filter every transport registered at the call has
\* the record queued once or handed over once, whatever the threshold has
\* become since; of a call that did not pass, nothing is ever queued or
\* handed over; and a queued record can always be dispatched.
C20_ThresholdReadAtCall ==
    /\ [](\A c \in 1..Len(calls) :
             \A s \in 1..Len(calls[c].registry) :
                 Pending(c, s) + Done(c, s) = IF calls[c].passed THEN 1 ELSE 0)
    /\ [](\A i \in 1..Len(queue) : calls[queue[i].call].passed)
    /\ [](\A i \in 1..Len(invoked) : calls[invoked[i].call].passed)
    /\ []((variant = "browser" /\ queue # <<>>) => ENABLED RunMicrotask)
    /\ [][Len(queue') < Len(queue) =>
             Cardinality({i \in 1..Len(invoked') :
                             /\ invoked'[i].call = Head(queue).call
                             /\ invoked'[i].slot = Head(queue).slot}) = 1]_vars

\* a debug call passed the filter, the threshold was then lowered to error,
\* and the record was delivered to both transports all the same
C20_Witness ==
    /\ Len(calls) = 1 /\ calls[1].method = "debug" /\ calls[1].passed
    /\ Len(calls[1].registry) = 2
    /\ currentLevel = "error" /\ lastSet = "error"
    /\ queue = <<>> /\ Len(invoked) = 2

(* -------------------------------- C12 --------------------------------- *)
\* C12 as stated: each log() call on an initialized file transport acquires
\* one writable, makes exactly one write and then exactly one close on it.
\* Stated of the calls that have ended.
C12_EveryCallWritesAndCloses ==
    \A c \in 1..Len(fcalls) :
        fcalls[c].pc = "done" =>
            /\ fcalls[c].writable # 0
            /\ Len(writables[fcalls[c].writable].writes) = 1
            /\ writables[fcalls[c].writable].closes = 1

\* C12, amended: each log() call on an initialized file transport asks for
\* one writable; when it gets one it makes exactly one write on it, of the
\* line '<timestamp> [<category>] <level>: <msg>\n', and then exactly one
\* close, the close coming after the write has settled and also when the
\* write rejects; under any interleaving of the calls in flight every
\* writable acquired is eventually closed, and never twice. A call that gets
\* no writable writes nothing and closes nothing.
C12_WriteThenClose ==
    /\ [](\A w \in 1..Len(writables) :
            LET c == writables[w].owner
            IN  /\ c \in 1..Len(fcalls) /\ fcalls[c].writable = w
                /\ \A v \in 1..Len(writables) : writables[v].owner = c => v = w
                /\ writables[w].writes = <<FormatLine(fcalls[c].merged)>>
                /\ writables[w].closes = IF fcalls[c].pc = "write" THEN 0 ELSE 1
                /\ fcalls[c].pc \in {"write", "close", "done"})
    /\ [](\A c \in 1..Len(fcalls) :
            fcalls[c].writable = 0 =>
                /\ fcalls[c].pc \in {"createWritable", "done"}
                /\ \A w \in 1..Len(writables) : writables[w].owner # c)
    /\ [][\A w \in 1..Len(writables) :
             /\ w \in 1..Len(writables')
             /\ writables'[w].writes = writables[w].writes
             /\ writables'[w].closes >= writables[w].closes]_vars
    /\ \A c \in 1..MaxFileCalls :
          (c \in 1..Len(fcalls) /\ fcalls[c].writable # 0)
              ~> (/\ c \in 1..Len(fcalls) /\ fcalls[c].pc = "done"
                  /\ fcalls[c].writable \in 1..Len(writables)
                  /\ writables[fcalls[c].writable].closes = 1)

\* two calls in flight together, the write of the first rejected, both
\* writables closed once and both calls ended
C12_Witness ==
    /\ Len(fcalls) = 2 /\ Len(writables) = 2
    /\ \A c \in 1..2 : fcalls[c].pc = "done" /\ fcalls[c].promise = "resolved"
    /\ \A w \in 1..2 : writables[w].closes = 1 /\ Len(writables[w].writes) = 1
    /\ writables[1].owner = 2 /\ writables[2].owner = 1
    /\ [channel |-> "error", from |-> "write", call |-> 1] \in diag

(* -------------------------------- C13 --------------------------------- *)
\* C13: whatever the outcomes of acquiring the writable, of the write and of
\* the close, the promise that log() of the file transport returned does not
\* reject.
C13_FileLogNeverRejects ==
    \A c \in 1..Len(fcalls) : fcalls[c].promise # "rejected"

(* ------------------- helpers of the interpolate claims ---------------- *)
\* whether obj has the own property key
HasProp(obj, key) == \E i \in 1..Len(obj.p) : obj.p[i].k = key

\* a template with no {{...}} placeholder in any of its strings
RECURSIVE NoPlaceholder(_)
NoPlaceholder(template) ==
    CASE template.t = "string" -> \A i \in 1..Len(template.s) : MatchClose(template.s, i) = 0
      [] template.t = "array" -> \A i \in 1..Len(template.e) : NoPlaceholder(template.e[i])
      [] template.t = "object" -> \A i \in 1..Len(template.p) : NoPlaceholder(template.p[i].v)
      [] OTHER -> TRUE

\* a string that is one placeholder {{k}} and nothing else, and its k
IsWholePlaceholder(s) == Len(s) >= 5 /\ MatchClose(s, 1) = Len(s) - 1
PlaceholderKey(s) == SubSeq(s, 3, Len(s) - 2)

\* a value JSON text represents exactly: no undefined and no missing
\* element anywhere inside it
RECURSIVE JSONExact(_)
JSONExact(x) ==
    CASE x.t \in {"string", "number", "boolean", "null"} -> TRUE
      [] x.t = "array" -> \A i \in 1..Len(x.e) : JSONExact(x.e[i])
      [] x.t = "object" -> \A i \in 1..Len(x.p) : JSONExact(x.p[i].v)
      [] OTHER -> FALSE

\* the slots of a container template, each with the value the result holds
\* in the same place (undefined when it holds none)
Slots(template, result) ==
    IF template.t = "array"
    THEN [i \in 1..Len(template.e) |->
             [tpl |-> template.e[i],
              out |-> IF result.t = "array" /\ i <= Len(result.e) /\ result.e[i].t # "hole"
                      THEN result.e[i] ELSE JSUndefined]]
    ELSE [i \in 1..Len(template.p) |->
             [tpl |-> template.p[i].v,
              out |-> IF result.t = "object" THEN GetProp(result, template.p[i].k)
                      ELSE JSUndefined]]

\* the string the claim C16 describes for the template s from position i
\* on: each {{identifier}} replaced by the string form of model[identifier],
\* its JSON text for an object or array, and by nothing when the model has
\* no such key
RECURSIVE SubstitutedAsClaimed(_, _, _)
SubstitutedAsClaimed(s, i, model) ==
    IF i > Len(s) THEN <<>>
    ELSE IF MatchClose(s, i) # 0
    THEN LET br == SubSeq(s, i + 2, MatchClose(s, i) - 1)
         IN  (IF ~HasProp(model, br) THEN <<>>
              ELSE IF InstanceofObject(GetProp(model, br)) THEN JSONStringify(GetProp(model, br))
              ELSE StringOf(GetProp(model, br)))
                 \o SubstitutedAsClaimed(s, MatchClose(s, i) + 2, model)
    ELSE <<s[i]>> \o SubstitutedAsClaimed(s, i + 1, model)

(* -------------------------------- C15 --------------------------------- *)
\* C15: for a template with no placeholder - a string, a sequence or a
\* mapping, nested to any depth - and any model, interpolate returns a value
\* equal to the template.
C15_IdentityLaw ==
    (interp.done /\ NoPlaceholder(interp.template)) => interp.result = interp.template

(* -------------------------------- C16 --------------------------------- *)
\* C16: for a string template, interpolate replaces every {{identifier}} by
\* the string form of model[identifier] (the JSON text of an object or
\* array) whatever value the model holds under the key, by the empty string
\* exactly when the model lacks the key, and leaves the other text as it is.
C16_StringSubstitution ==
    (interp.done /\ interp.template.t = "string") =>
        interp.result = Str(SubstitutedAsClaimed(interp.template.s, 1, interp.model))

(* -------------------------------- C17 --------------------------------- *)
\* C17 as stated: a slot of a mapping or sequence template that is exactly
\* one placeholder {{k}}, with model[k] an array or object, comes out as a
\* value equal to model[k]; the same placeholder as a top-level string
\* template comes out as the JSON text of model[k].
C17_WholeValueOfAnyObject ==
    interp.done =>
        /\ InstanceofObject(interp.template) =>
              \A i \in DOMAIN Slots(interp.template, interp.result) :
                  LET slot == Slots(interp.template, interp.result)[i]
                  IN  (/\ slot.tpl.t = "string" /\ IsWholePlaceholder(slot.tpl.s)
                       /\ InstanceofObject(GetProp(interp.model, PlaceholderKey(slot.tpl.s)))) =>
                          slot.out = GetProp(interp.model, PlaceholderKey(slot.tpl.s))
        /\ (/\ interp.template.t = "string" /\ IsWholePlaceholder(interp.template.s)
            /\ InstanceofObject(GetProp(interp.model, PlaceholderKey(interp.template.s)))) =>
               interp.result =
                   Str(JSONStringify(GetProp(interp.model, PlaceholderKey(interp.template.s))))

\* C17, amended: a slot of a mapping or sequence template that is exactly
\* one placeholder {{k}}, with model[k] an array or object that JSON text
\* represents exactly (strings, numbers, booleans, null, and arrays and
\* objects of these), comes out as a value equal to model[k], not as its
\* string form; the same placeholder as a top-level string template comes
\* out as the JSON text of model[k].
C17_WholeValueOfJSONObject ==
    interp.done =>
        /\ InstanceofObject(interp.template) =>
              \A i \in DOMAIN Slots(interp.template, interp.result) :
                  LET slot == Slots(interp.template, interp.result)[i]
                  IN  (/\ slot.tpl.t = "string" /\ IsWholePlaceholder(slot.tpl.s)
                       /\ InstanceofObject(GetProp(interp.model, PlaceholderKey(slot.tpl.s)))
                       /\ JSONExact(GetProp(interp.model, PlaceholderKey(slot.tpl.s)))) =>
                          slot.out = GetProp(interp.model, PlaceholderKey(slot.tpl.s))
        /\ (/\ interp.template.t = "string" /\ IsWholePlaceholder(interp.template.s)
            /\ InstanceofObject(GetProp(interp.model, PlaceholderKey(interp.template.s)))) =>
               interp.result =
                   Str(JSONStringify(GetProp(interp.model, PlaceholderKey(interp.template.s))))

\* {b: '{{x}}'} interpolated with x an array of a string and a number: the
\* slot b holds that array
C17_Witness ==
    /\ interp.done
    /\ interp.template = Obj(<<[k |-> <<"b">>, v |-> Str(Placeholder(<<"x">>))]>>)
    /\ GetProp(interp.model, <<"x">>) = Arr(<<Str(<<"t">>), Num(10)>>)
    /\ GetProp(interp.result, <<"b">>) = Arr(<<Str(<<"t">>), Num(10)>>)

(* -------------------------------- C18 --------------------------------- *)
\* C18: for a mapping template interpolate returns a mapping in which a key
\* of the template is absent exactly when the interpolated value of that key
\* is undefined or the empty string; no key appears that the template lacks,
\* and none twice.
C18_MappingOmitsEmpty ==
    (interp.done /\ interp.template.t = "object") =>
        /\ interp.result.t = "object"
        /\ \A j \in 1..Len(interp.result.p) :
              /\ HasProp(interp.template, interp.result.p[j].k)
              /\ \A i \in 1..Len(interp.result.p) :
                    interp.result.p[i].k = interp.result.p[j].k => i = j
        /\ \A i \in 1..Len(interp.template.p) :
              ~HasProp(interp.result, interp.template.p[i].k) <=>
                  \/ interpolator(interp.template.p[i].v, interp.model) = JSUndefined
                  \/ interpolator(interp.template.p[i].v, interp.model) = Str(<<>>)

\* of the two keys of a template the one whose placeholder found nothing in
\* the model is absent from the result, the other is there
C18_Witness ==
    /\ interp.done
    /\ interp.template.t = "object" /\ Len(interp.template.p) = 2
    /\ interp.model = Obj(<<>>)
    /\ interp.result = Obj(<<[k |-> <<"i", "d">>, v |-> Str(<<"T", ":", " ">>)]>>)

(* -------------------------------- C14 --------------------------------- *)
\* C14: each log() call on the API transport issues exactly one request,
\* to the url (and with the method and body) that interpolating the
\* configured template against the record gives; whether the request
\* succeeds, gets a non-success response or fails with a network error, the
\* promise log() returned is fulfilled, never rejected.
C14_OneRequestNeverRejects ==
    /\ [](/\ Len(requests) = Len(acalls)
          /\ \A c \in 1..Len(acalls) :
                /\ requests[c].call = c
                /\ requests[c].url = GetProp(interpolator(aConfig, acalls[c].params), KeyUrl)
                /\ requests[c].method = GetProp(interpolator(aConfig, acalls[c].params), KeyMethod)
                /\ requests[c].body = GetProp(interpolator(aConfig, acalls[c].params), KeyBody)
                /\ acalls[c].promise # "rejected"
                /\ acalls[c].pc = "done" <=> acalls[c].promise = "resolved")
    /\ [][\A c \in 1..MaxApiCalls, o \in FetchOutcomes :
             ApiFetchSettles(c, o) => acalls'[c].promise = "resolved"]_vars
    /\ [][requests = SubSeq(requests', 1, Len(requests))]_vars
    /\ \A c \in 1..MaxApiCalls :
          (c \in 1..Len(acalls)) ~> (c \in 1..Len(acalls) /\ acalls[c].promise = "resolved")

\* two calls: the request of one met a network error, that of the other a
\* non-success response; both promises are fulfilled, and the first request
\* went to the url made from the level of its record
C14_Witness ==
    /\ Len(acalls) = 2 /\ Len(requests) = 2
    /\ \A c \in 1..2 : acalls[c].promise = "resolved"
    /\ [channel |-> "error", from |-> "networkError", call |-> 1] \in diag
    /\ [channel |-> "debug", from |-> "nonSuccess", call |-> 2] \in diag
    /\ requests[1].url = Str(<<"/", "i", "n", "f", "o">>)

(* -------------------------------- C21 --------------------------------- *)
\* the transports a call's record has been handed to so far, in the order
\* of the invocations, and those of its microtasks that are still queued
HandedTo(c) ==
    LET got == SelectSeq(invoked, LAMBDA v : v.call = c)
    IN  [i \in 1..Len(got) |-> got[i].transport]
StillQueuedFor(c) ==
    LET waiting == SelectSeq(queue, LAMBDA q : q.call = c)
    IN  [i \in 1..Len(waiting) |-> waiting[i].transport]

\* C21: the transports that receive the record of a level-method call are
\* exactly the values of the registry at the moment of the call, whatever
\* addTransport and removeTransport do to the registry afterwards: those
\* already invoked followed by those still queued are the registry of the
\* call, a call that was filtered out reaches none, and once its microtasks
\* have run the invoked transports are that registry, not the current one.
C21_RegistryAtCall ==
    variant = "browser" =>
        \A c \in 1..Len(calls) :
            /\ HandedTo(c) \o StillQueuedFor(c) =
                   (IF calls[c].passed THEN calls[c].registry ELSE <<>>)
            /\ StillQueuedFor(c) = <<>> /\ calls[c].passed => HandedTo(c) = calls[c].registry

\* a call was made with default (console) and testTransport (failing)
\* registered; the first microtask has run; then, before the second runs,
\* the registry holds neither of them but a transport added under the name
\* default after the call, which is in no microtask
C21_Witness ==
    /\ variant = "browser"
    /\ Len(calls) = 1 /\ calls[1].passed
    /\ calls[1].registry = <<"console", "custom">>
    /\ HandedTo(1) = <<"console">>
    /\ StillQueuedFor(1) = <<"custom">>
    /\ transports = <<[name |-> "default", transport |-> "custom"]>>
    /\ added["testTransport"] = "absent"

(* -------------------------------- C23 --------------------------------- *)
\* C23: params cannot override the fields a logger instance binds: every
\* record handed to a transport has the category its instance was created
\* with and the level of the method that was called, a level the threshold
\* let through when the call was made.
C23_BoundFieldsKept ==
    \A i \in 1..Len(invoked) :
        /\ invoked[i].record.category = calls[invoked[i].call].category
        /\ invoked[i].record.level = calls[invoked[i].call].method
        /\ calls[invoked[i].call].passed

(* -------------------------------- C24 --------------------------------- *)
\* C24: every record handed to a transport by a level method carries a
\* timestamp, the caller's when params supplies one and otherwise one set
\* when the record is built.
C24_EveryRecordHasTimestamp ==
    \A i \in 1..Len(invoked) : "timestamp" \in DOMAIN invoked[i].record

(* -------------------------------- C26 --------------------------------- *)
\* C26: the backend of the server Logger is created at most once. The
\* first Logger call with a configuration object creates it, with the level
\* of that configuration and the File and Console transports; every later
\* Logger call leaves the backend, its level, its transport list and the
\* name table as they are and returns a child logger (or, without an
\* argument, throws); a Logger call made before any configuration throws
\* and creates no backend; no operation undoes the creation.
C26_BackendCreatedOnce ==
    /\ [][\A a \in ServerArgs :
             ServerLogger(a) =>
                 IF sInstance
                 THEN /\ UNCHANGED <<sInstance, sLevel, sPipes, sTypes>>
                      /\ IF a.type = "undefined"
                         THEN err' = "MissingCategory" /\ sLoggers' = sLoggers
                         ELSE err' = "none" /\ sLoggers' = sLoggers \cup {a}
                 ELSE IF a.type = "object"
                 THEN /\ sInstance' /\ sLevel' = a.value
                      /\ sPipes' = <<"File", "Console">>
                      /\ sLoggers' = {a}
                      /\ err' = "none"
                 ELSE /\ err' \in {"MissingCategory", "TypeError"}
                      /\ UNCHANGED svars]_vars
    /\ [][sInstance => sInstance']_vars
    /\ [](~sInstance => sLoggers = {} /\ sPipes = <<>> /\ sLevel = Undefined)

\* the backend was configured with level debug and got a third transport;
\* later Logger calls, one of them with a configuration of level error,
\* returned children and the backend is as it was
C26_Witness ==
    /\ variant = "server"
    /\ sInstance /\ sLevel = "debug" /\ lastSet = "unset"
    /\ Len(sPipes) = 3
    /\ {a.type : a \in sLoggers} = {"object", "string"}
    /\ [type |-> "object", value |-> "error"] \in sLoggers
    /\ err = "none"

(* -------------------------------- C22 --------------------------------- *)
\* C22: delivery keeps the order of the calls. Of two level-method calls A
\* then B that both pass the filter, every invocation made for A comes
\* before every invocation made for B (so a transport that receives both
\* records receives A's first), and while microtasks of A are queued no
\* microtask of B is ahead of them and none of B has run.
C22_CallOrderKept ==
    /\ \A i, j \in 1..Len(invoked) : invoked[i].call < invoked[j].call => i < j
    /\ \A i, j \in 1..Len(invoked) :
          /\ invoked[i].transport = invoked[j].transport
          /\ invoked[i].call < invoked[j].call
          => i < j
    /\ \A i, j \in 1..Len(queue) : i < j => queue[i].call <= queue[j].call
    /\ \A i \in 1..Len(invoked), q \in 1..Len(queue) : invoked[i].call <= queue[q].call

\* two calls, both let through with two transports registered, and all
\* four invocations made: those of the first call, then those of the second
C22_Witness ==
    /\ Len(calls) = 2
    /\ calls[1].passed /\ calls[2].passed
    /\ calls[1].method # calls[2].method
    /\ [i \in 1..Len(invoked) |-> invoked[i].call] = <<1, 1, 2, 2>>
    /\ invoked[1].transport = invoked[3].transport
    /\ queue = <<>>

(* -------------------------------- C25 --------------------------------- *)
\* the handle obtained by the first initialize() whose picker gave one, 0
\* if there is none
FirstHandle ==
    IF \E i \in 1..Len(fInits) : fInits[i].handle # 0
    THEN fInits[CHOOSE i \in 1..Len(fInits) :
                    fInits[i].handle # 0 /\ \A j \in 1..(i - 1) : fInits[j].handle = 0].handle
    ELSE 0

\* C25: a file transport has log if and only if some initialize() call has
\* obtained a file handle. Before that, and after an initialize() whose
\* picker failed, there is no log and no log() call can be made; every
\* initialize() resolves; once log is there, every log() call asks the
\* handle of the first successful initialize() for its writable, also
\* after further initialize() calls.
C25_LogIffFirstHandle ==
    /\ (fState = "initialized") <=> (\E i \in 1..Len(fInits) : fInits[i].handle # 0)
    /\ fHandle = FirstHandle
    /\ fHandle = 0 => /\ fcalls = <<>>
                      /\ \A r \in FileRecords : ~ENABLED FileLog(r)
    /\ fHandle # 0 /\ Len(fcalls) < MaxFileCalls => \A r \in FileRecords : ENABLED FileLog(r)
    /\ \A i \in 1..Len(fInits) : fInits[i].promise = "resolved"
    /\ \A c \in 1..Len(fcalls) : fcalls[c].handle = FirstHandle /\ fcalls[c].handle # 0
    /\ \A w \in 1..Len(writables) : writables[w].handle = FirstHandle

\* the picker failed for the first initialize(), gave a handle to the second
\* and another to the third; a log() call made after all three has written
\* through the handle of the second
C25_Witness ==
    /\ [i \in 1..Len(fInits) |-> fInits[i].handle] = <<0, 2, 3>>
    /\ fHandle = 2
    /\ Len(fcalls) = 1 /\ fcalls[1].after = 3 /\ fcalls[1].pc = "done"
    /\ Len(writables) = 1 /\ writables[1].handle = 2 /\ writables[1].closes = 1
    /\ [channel |-> "error", from |-> "defineProperty", call |-> 0] \in diag

====
